---- MODULE Spec2Model ----
(***************************************************************************)
(* A model of the generic type utilities of src/generics.ts.               *)
(*                                                                         *)
(* The utilities are type-level functions.  A type is modelled as a term   *)
(* (a record with a kind), a value as a record with a primitive part and   *)
(* a set of fields, and the type checker's assignability relation as the   *)
(* operator Accepts.  The state machine instantiates one utility with      *)
(* type arguments drawn from bounded sets, resolves it as the declaration  *)
(* in the source resolves it, and then checks candidate values against the *)
(* resolved type.                                                          *)
(***************************************************************************)
EXTENDS Integers, Sequences, FiniteSets, TLC

VARIABLES util, T, K, A, B, resolved, cand, verdict

vars == <<util, T, K, A, B, resolved, cand, verdict>>

(***************************************************************************)
(* Bounds.                                                                 *)
(***************************************************************************)
\* number of member names an object shape may declare
NumNames == 3
\* longest tuple type given to Unionize
MaxTupleLen == 3

NamePool == <<"a", "b", "c", "d">>
Names == {NamePool[i] : i \in 1..NumNames}

(***************************************************************************)
(* Primitive values and primitive types.  A primitive type is the set of   *)
(* the values that inhabit it; the string type is the set of the model's   *)
(* string literals.                                                        *)
(***************************************************************************)
Undefined == "undefined"
Null == "null"
NoPrim == "object"
StringVals == {"foo", "bar", "baz", "qux", "info", "warn", "debug"}
NumberVals == {"123"}
Atoms == StringVals \cup NumberVals \cup {Null, Undefined}

PrimType(S) == [kind |-> "prim", vals |-> S]
StringType == PrimType(StringVals)
NumberType == PrimType(NumberVals)
Never == PrimType({})

\* every object shape over Names whose members have a type of Types:
\* member name -> declaration
ShapesOver(Types) ==
    UNION {[D -> [optional : BOOLEAN, type : Types]] : D \in SUBSET Names}
\* the shapes given to WithUnknown, SomeRequired and WithOptional
Shapes == ShapesOver({StringVals, NumberVals})
\* the shapes given to ObjectValues: primitive and literal member types
ValueShapes == ShapesOver({StringVals, NumberVals, {"info"}, {"warn"}})
\* the types given to Brand and Serialized as the brand parameter
BrandTypes == {StringVals, NumberVals}
EmptyShape == [k \in {} |-> [optional |-> FALSE, type |-> {}]]

ObjectType(P) == [kind |-> "object", props |-> P, index |-> FALSE]
Intersection(X, Y) == [kind |-> "intersection", parts |-> <<X, Y>>]
Union(X, Y) == [kind |-> "union", parts |-> <<X, Y>>]

(***************************************************************************)
(* The built-in mapped types the declarations use.                         *)
(***************************************************************************)
KeyOf(P) == DOMAIN P
\* Pick<T, K> = { [P in K]: T[P] }: homomorphic, keeps each member's modifiers
Pick(P, Ks) == [k \in Ks |-> P[k]]
\* Partial<T> = { [P in keyof T]?: T[P] }
Partial(P) == [k \in DOMAIN P |-> [optional |-> TRUE, type |-> P[k].type]]
\* Exclude<U, E> on unions of keys
Exclude(U, E) == U \ E
\* Omit<T, K> = Pick<T, Exclude<keyof T, K>>
Omit(P, Ks) == Pick(P, Exclude(KeyOf(P), Ks))
\* the type read from member k: T[k]
ReadType(P, k) == P[k].type \cup (IF P[k].optional THEN {Undefined} ELSE {})
\* T[Ks] for a union of keys Ks
IndexedAccess(P, Ks) == PrimType(UNION {ReadType(P, k) : k \in Ks})

(***************************************************************************)
(* The declarations of src/generics.ts.                                    *)
(***************************************************************************)
AnyObject == [kind |-> "object", props |-> EmptyShape, index |-> TRUE]

\* a variant that forgets the index signature
WithUnknown_Closed(P) == ObjectType(P)
WithUnknown(P) == Intersection(ObjectType(P), AnyObject)

\* a variant that forgets to pin the selected members
SomeRequired_PartialOnly(P, Ks) == ObjectType(Partial(P))
SomeRequired(P, Ks) == Intersection(ObjectType(Pick(P, Ks)), ObjectType(Partial(P)))

\* a variant that intersects with T instead of Omit<T, K>
WithOptional_KeepsAll(P, Ks) == Intersection(ObjectType(Pick(Partial(P), Ks)), ObjectType(P))
WithOptional(P, Ks) == Intersection(ObjectType(Pick(Partial(P), Ks)), ObjectType(Omit(P, Ks)))

\* a variant that indexes with a single key instead of keyof T
ObjectValues_OneKey(P) ==
    IndexedAccess(P, IF KeyOf(P) = {} THEN {} ELSE {CHOOSE k \in KeyOf(P) : TRUE})
ObjectValues(P) == IndexedAccess(P, KeyOf(P))

BrandKey == "__brand"
Brand(Bt) ==
    [kind |-> "object",
     props |-> (BrandKey :> [optional |-> FALSE, type |-> Bt]),
     index |-> FALSE]

\* a variant that forgets the brand
Serialized_Untagged(Bt) == StringType
\* a variant that forgets the string
Serialized_BrandOnly(Bt) == Brand(Bt)
Serialized(Bt) == Intersection(StringType, Brand(Bt))

\* T extends readonly (infer U)[]: arrays and tuples, mutable or readonly
ExtendsReadonlyArray_ReadonlyOnly(X) == X.kind \in {"array", "tuple"} /\ X.readonly
ExtendsReadonlyArray(X) == X.kind \in {"array", "tuple"}
\* a variant that infers a tuple's first element only
InferElement_First(X) ==
    IF X.kind = "array" THEN X.elem
    ELSE {X.elems[i] : i \in 1..(IF Len(X.elems) > 0 THEN 1 ELSE 0)}
\* the U inferred from an array or tuple type
InferElement(X) ==
    IF X.kind = "array" THEN X.elem
    ELSE {X.elems[i] : i \in 1..Len(X.elems)}
UnionizeOne(X) == IF ExtendsReadonlyArray(X) THEN InferElement(X) ELSE {}
\* a conditional type over a naked type parameter distributes over a union
Unionize(X) ==
    PrimType(IF X.kind = "union"
             THEN UNION {UnionizeOne(X.parts[i]) : i \in 1..Len(X.parts)}
             ELSE UnionizeOne(X))

(***************************************************************************)
(* Assignability of a value to a type.                                     *)
(***************************************************************************)
MemberFits(decl, x) == x \in decl.type \/ (decl.optional /\ x = Undefined)

RECURSIVE Assignable(_, _)
Assignable(ty, v) ==
    CASE ty.kind = "prim" -> v.prim \in ty.vals
      [] ty.kind = "object" ->
            /\ ty.index => v.prim = NoPrim
            /\ \A k \in DOMAIN ty.props :
                  IF k \in DOMAIN v.fields
                  THEN MemberFits(ty.props[k], v.fields[k])
                  ELSE ty.props[k].optional
      [] ty.kind = "intersection" ->
            \A i \in 1..Len(ty.parts) : Assignable(ty.parts[i], v)
      [] ty.kind = "union" ->
            \E i \in 1..Len(ty.parts) : Assignable(ty.parts[i], v)
      [] OTHER -> FALSE

\* a property of a fresh object literal is known to the target type
RECURSIVE KnownProperty(_, _)
KnownProperty(ty, k) ==
    CASE ty.kind = "object" -> ty.index \/ k \in DOMAIN ty.props
      [] ty.kind \in {"intersection", "union"} ->
            \E i \in 1..Len(ty.parts) : KnownProperty(ty.parts[i], k)
      [] OTHER -> FALSE

\* assignability, with the excess property check for fresh object literals
Accepts(ty, v) ==
    /\ Assignable(ty, v)
    /\ v.fresh => \A k \in DOMAIN v.fields : KnownProperty(ty, k)

(***************************************************************************)
(* Inputs.                                                                 *)
(***************************************************************************)
FieldVals == {"foo", "123", Undefined}
NoFields == [k \in {} |-> Undefined]
ObjectLiterals ==
    {[prim |-> NoPrim, fields |-> f, fresh |-> TRUE] :
        f \in UNION {[D -> FieldVals] : D \in SUBSET Names}}
Primitives == {[prim |-> p, fields |-> NoFields, fresh |-> FALSE] : p \in Atoms}
Tagged ==
    {[prim |-> p, fields |-> (BrandKey :> t), fresh |-> FALSE] :
        p \in {"foo", "123", NoPrim}, t \in {"foo", "123"}}
NoValue == [prim |-> NoPrim, fields |-> NoFields, fresh |-> FALSE]

TupleLiterals == {"foo", "bar", "baz", "qux"}
ElemTypes == {StringVals, NumberVals, StringVals \cup NumberVals \cup {Null}}
ArrayTypes ==
    [kind : {"array"}, readonly : BOOLEAN, elem : ElemTypes]
TupleTypes ==
    [kind : {"tuple"}, readonly : BOOLEAN,
     elems : UNION {[1..n -> TupleLiterals] : n \in 0..MaxTupleLen}]
NonArrayTypes ==
    {StringType, NumberType, Never,
     ObjectType([k \in {"a"} |-> [optional |-> FALSE, type |-> StringVals]])}
\* unions of an array type with a non-array type (a union with never is the
\* array type itself)
UnionTypes ==
    {Union(X, Y) : X \in ArrayTypes \cup {t \in TupleTypes : Len(t.elems) <= 1},
                   Y \in NonArrayTypes \ {Never}}
UnionizeArgs == ArrayTypes \cup TupleTypes \cup NonArrayTypes \cup UnionTypes

ObjectUtils == {"WithUnknown", "SomeRequired", "WithOptional"}
CandidatesFor(u) ==
    CASE u \in ObjectUtils -> ObjectLiterals
      [] u \in {"ObjectValues", "Unionize"} -> Primitives
      [] OTHER -> Primitives \cup Tagged

(***************************************************************************)
(* The state machine.                                                      *)
(***************************************************************************)
NoType == [kind |-> "none"]

Init ==
    /\ util = "none"
    /\ T = EmptyShape
    /\ K = {}
    /\ A = Never
    /\ B = {}
    /\ resolved = NoType
    /\ cand = NoValue
    /\ verdict = "unchecked"

\* a point of use names one utility with its type arguments; the alias is
\* resolved once
Instantiate(u, P, Ks, X, Bt, ty) ==
    /\ util' = u
    /\ T' = P
    /\ K' = Ks
    /\ A' = X
    /\ B' = Bt
    /\ resolved' = ty
    /\ cand' = NoValue
    /\ verdict' = "unchecked"

ApplyWithUnknown ==
    /\ util = "none"
    /\ \E P \in Shapes : Instantiate("WithUnknown", P, {}, Never, {}, WithUnknown(P))

ApplySomeRequired ==
    /\ util = "none"
    /\ \E P \in Shapes : \E Ks \in SUBSET DOMAIN P :
        Instantiate("SomeRequired", P, Ks, Never, {}, SomeRequired(P, Ks))

ApplyWithOptional ==
    /\ util = "none"
    /\ \E P \in Shapes : \E Ks \in SUBSET DOMAIN P :
        Instantiate("WithOptional", P, Ks, Never, {}, WithOptional(P, Ks))

ApplyObjectValues ==
    /\ util = "none"
    /\ \E P \in ValueShapes : Instantiate("ObjectValues", P, {}, Never, {}, ObjectValues(P))

ApplyBrand ==
    /\ util = "none"
    /\ \E Bt \in BrandTypes : Instantiate("Brand", EmptyShape, {}, Never, Bt, Brand(Bt))

ApplySerialized ==
    /\ util = "none"
    /\ \E Bt \in BrandTypes :
        Instantiate("Serialized", EmptyShape, {}, Never, Bt, Serialized(Bt))

ApplyUnionize ==
    /\ util = "none"
    /\ \E X \in UnionizeArgs : Instantiate("Unionize", EmptyShape, {}, X, {}, Unionize(X))

\* the type checker checks a candidate value against the resolved type
Check ==
    /\ util # "none"
    /\ verdict = "unchecked"
    /\ \E v \in CandidatesFor(util) :
          /\ cand' = v
          /\ verdict' = IF Accepts(resolved, v) THEN "accepted" ELSE "rejected"
    /\ UNCHANGED <<util, T, K, A, B, resolved>>

Next ==
    \/ ApplyWithUnknown
    \/ ApplySomeRequired
    \/ ApplyWithOptional
    \/ ApplyObjectValues
    \/ ApplyBrand
    \/ ApplySerialized
    \/ ApplyUnionize
    \/ Check

Spec == Init /\ [][Next]_vars

TypeOK ==
    /\ util \in {"none", "Brand", "Serialized", "ObjectValues", "Unionize"} \cup ObjectUtils
    /\ verdict \in {"unchecked", "accepted", "rejected"}
    /\ K \subseteq DOMAIN T

(***************************************************************************)
(* Properties.                                                             *)
(***************************************************************************)
Checked == verdict # "unchecked"
Accepted == verdict = "accepted"
Present(k) == k \in DOMAIN cand.fields
Req(D) == [k \in D |-> [optional |-> FALSE, type |-> StringVals]]
Lit(f) == [prim |-> NoPrim, fields |-> f, fresh |-> TRUE]

C2_WithOptional ==
    (util = "WithOptional" /\ Checked) =>
        (Accepted <=>
            /\ \A k \in DOMAIN T : (k \notin K /\ ~T[k].optional) => Present(k)
            /\ \A k \in DOMAIN cand.fields :
                  /\ k \in DOMAIN T
                  /\ \/ cand.fields[k] \in T[k].type
                     \/ (k \in K \/ T[k].optional) /\ cand.fields[k] = Undefined)

\* T = {a, b, c} all required, K = {a}: the value omitting a is accepted
C2_Witness ==
    /\ util = "WithOptional"
    /\ T = Req({"a", "b", "c"})
    /\ K = {"a"}
    /\ cand = Lit([k \in {"b", "c"} |-> "foo"])
    /\ Accepted

\* C3 as stated: Unionize of a plain mutable array type resolves to never.
C3_MutableArrayIsNever ==
    (util = "Unionize" /\ A.kind = "array" /\ ~A.readonly) => resolved = Never

\* C3 as amended: Unionize of a plain mutable array type resolves to the
\* array's element type; a value is accepted exactly when it belongs to the
\* element type.
C3_MutableArrayIsElement ==
    (util = "Unionize" /\ A.kind = "array" /\ ~A.readonly /\ Checked) =>
        (Accepted <=> cand.prim \in A.elem)

\* Unionize<string[]> accepts the string "foo"
C3_Witness ==
    /\ util = "Unionize"
    /\ A = [kind |-> "array", readonly |-> FALSE, elem |-> StringVals]
    /\ cand.prim = "foo"
    /\ Accepted

\* C4: Unionize of a readonly literal tuple accepts a value exactly when the
\* value is one of the tuple's elements.
C4_TupleIsUnionOfElements ==
    (util = "Unionize" /\ A.kind = "tuple" /\ A.readonly /\ Checked) =>
        (Accepted <=> \E i \in 1..Len(A.elems) : A.elems[i] = cand.prim)

\* Unionize<readonly ["foo", "bar", "baz"]> accepts "bar"
C4_Witness ==
    /\ util = "Unionize"
    /\ A = [kind |-> "tuple", readonly |-> TRUE, elems |-> <<"foo", "bar", "baz">>]
    /\ cand.prim = "bar"
    /\ Accepted

\* C5: Unionize resolves to never for every input that is not an array type,
\* a union of an array type with a non-array type included.
C5_NonArrayIsNever ==
    (util = "Unionize" /\ A.kind \notin {"array", "tuple"}) => resolved = Never

\* C6: a value that carries no brand is rejected where Serialized<T> or
\* Brand<T> is required.
C6_UntaggedRejected ==
    (util \in {"Serialized", "Brand"} /\ Checked /\ BrandKey \notin DOMAIN cand.fields)
        => verdict = "rejected"

\* the raw string "foo" is rejected where Serialized<string> is required
C6_Witness ==
    /\ util = "Serialized"
    /\ B = StringVals
    /\ cand = [prim |-> "foo", fields |-> NoFields, fresh |-> FALSE]
    /\ verdict = "rejected"

\* C7 as stated: a value accepted by Serialized<T> or by Brand<T> is accepted
\* where string is required.
C7_TaggedIsString ==
    (util \in {"Serialized", "Brand"} /\ Accepted) => Accepts(StringType, cand)

\* C7 as amended: a value accepted by Serialized<T> is accepted where string
\* is required.
C7_SerializedIsString ==
    (util = "Serialized" /\ Accepted) => Accepts(StringType, cand)

\* a tagged string is accepted by Serialized<number>
C7_Witness ==
    /\ util = "Serialized"
    /\ B = NumberVals
    /\ cand = [prim |-> "foo", fields |-> (BrandKey :> "123"), fresh |-> FALSE]
    /\ Accepted

\* C8: WithUnknown<T> accepts an object literal exactly when the literal
\* satisfies every declared member of T; members T does not declare are
\* allowed with any value.
C8_WithUnknown ==
    (util = "WithUnknown" /\ Checked) =>
        (Accepted <=>
            \A k \in DOMAIN T :
                IF Present(k)
                THEN \/ cand.fields[k] \in T[k].type
                     \/ T[k].optional /\ cand.fields[k] = Undefined
                ELSE T[k].optional)

\* T = {a: string}: a literal with a and an undeclared numeric member b is
\* accepted
C8_Witness ==
    /\ util = "WithUnknown"
    /\ T = Req({"a"})
    /\ cand = Lit(("a" :> "foo") @@ ("b" :> "123"))
    /\ Accepted

\* C9: ObjectValues<T> accepts a value exactly when the value belongs to the
\* type of some member of T.
C9_ObjectValues ==
    (util = "ObjectValues" /\ Checked) =>
        (Accepted <=>
            \E k \in DOMAIN T :
                \/ cand.prim \in T[k].type
                \/ T[k].optional /\ cand.prim = Undefined)

\* T = {a: "info", b: "warn"}: "info" is accepted
C9_Witness ==
    /\ util = "ObjectValues"
    /\ T = ("a" :> [optional |-> FALSE, type |-> {"info"}])
           @@ ("b" :> [optional |-> FALSE, type |-> {"warn"}])
    /\ cand.prim = "info"
    /\ Accepted

\* C10: every value accepted by SomeRequired<T, K> has every member named in
\* K present.
C10_SelectedPresent ==
    (util = "SomeRequired" /\ Accepted) => \A k \in K : Present(k)

====
